---- MODULE Spec2Model ----
(***************************************************************************)
(* Company Info App (src/main.py): a three-screen Streamlit wizard.        *)
(* The script is re-executed from main() on every user interaction; the    *)
(* only state that survives a run is st.session_state.  A run of           *)
(* welcome_screen is one step; the loops of select_companies and           *)
(* show_company_details are modelled one iteration per step, the external  *)
(* responses and the user's widget values being the inputs of a step.      *)
(***************************************************************************)
EXTENDS Integers, Sequences, FiniteSets, TLC

\* ------------------------------------------------------------------ bounds
MaxInputLen == 4      \* characters typed into the text area
MaxItems == 6         \* items in one registry search response
MaxArticles == 1      \* articles in one news response

\* --------------------------------------------------------- program constant
TopResults == 5       \* items[:5]

\* ------------------------------------------------------------ input domains
Chars == {"a", " ", "\n"}
Whitespace == {" ", "\n"}
SeqsUpTo(S, n) == UNION {[1..k -> S] : k \in 0..n}
Texts == SeqsUpTo(Chars, MaxInputLen)

Titles == {<<"T">>}
Numbers == {<<"1">>, <<"2">>}
ItemSet == [title : Titles, company_number : Numbers]
\* ranked result lists: a run of one company followed by a run of another
SearchResponses ==
    {s \in SeqsUpTo(ItemSet, MaxItems) :
        Cardinality({k \in 1..(Len(s) - 1) : s[k] # s[k + 1]}) <= 1}

ArticleSet == [title : {"t1", "t2"}, description : {"d"}]
NewsResponses == SeqsUpTo(ArticleSet, MaxArticles)

AdditionalInfoOptions == {"SIC Codes", "Accounts", "Officers"}

\* ------------------------------------------------------- Python primitives
RECURSIVE LStrip(_)
LStrip(s) ==
    IF s # <<>> /\ Head(s) \in Whitespace THEN LStrip(Tail(s)) ELSE s

RECURSIVE RStrip(_)
RStrip(s) ==
    IF s # <<>> /\ s[Len(s)] \in Whitespace
    THEN RStrip(SubSeq(s, 1, Len(s) - 1))
    ELSE s

\* str.strip()
Strip(s) == RStrip(LStrip(s))

\* str.split('\n'): always at least one piece, empty pieces kept
RECURSIVE Split(_)
Split(s) ==
    IF \A k \in 1..Len(s) : s[k] # "\n"
    THEN <<s>>
    ELSE LET k == CHOOSE j \in 1..Len(s) :
                      s[j] = "\n" /\ \A m \in 1..(j - 1) : s[m] # "\n"
         IN  <<SubSeq(s, 1, k - 1)>> \o Split(SubSeq(s, k + 1, Len(s)))

\* [name.strip() for name in pieces if name.strip()]
RECURSIVE StripNonEmpty(_)
StripNonEmpty(pieces) ==
    IF pieces = <<>> THEN <<>>
    ELSE LET name == Strip(Head(pieces))
         IN  (IF name # <<>> THEN <<name>> ELSE <<>>)
                 \o StripNonEmpty(Tail(pieces))

\* welcome_screen: the list built from the text area on "Search Companies"
ParseNames(company_input) == StripNonEmpty(Split(Strip(company_input)))

\* dict: insertion-ordered sequence of <<key, value>> pairs
DictKeys(d) == [j \in 1..Len(d) |-> d[j][1]]
DictHas(d, k) == \E j \in 1..Len(d) : d[j][1] = k
DictGet(d, k) == d[CHOOSE j \in 1..Len(d) : d[j][1] = k][2]
DictSet(d, k, v) ==
    IF DictHas(d, k)
    THEN [j \in 1..Len(d) |-> IF d[j][1] = k THEN <<k, v>> ELSE d[j]]
    ELSE Append(d, <<k, v>>)

Min(a, b) == IF a < b THEN a ELSE b

\* list.index(x): position of the first element equal to x
ListIndex(list, x) ==
    CHOOSE j \in 1..Len(list) :
        list[j] = x /\ \A m \in 1..(j - 1) : list[m] # x

\* first-occurrence deduplication (the key order of a dict filled in list order)
RECURSIVE Dedup(_)
Dedup(list) ==
    IF list = <<>> THEN <<>>
    ELSE LET front == Dedup(SubSeq(list, 1, Len(list) - 1))
             last == list[Len(list)]
         IN  IF \E j \in 1..Len(front) : front[j] = last
             THEN front ELSE Append(front, last)

\* ------------------------------------------------------------------- state
VARIABLES
    session_state,        \* st.session_state: a dict from key to value
    api_key,              \* companies_house_api_key is set (read on every run)
    page,                 \* the screen function that ran in the latest run
    confirm_shown,        \* the latest run reached st.button("Confirm")
    clicked,              \* the button whose click triggered the latest run
    pc,                   \* "idle", or the loop the current run is inside
    company_input,        \* welcome_screen: the text area's value
    idx,                  \* position of the loop in its list (1-based)
    confirmed_companies,  \* select_companies: the local dict
    items,                \* select_companies: items of the latest response
    options,              \* select_companies: labels of the latest selectbox
    choice,               \* position the user picked in the latest selectbox
    articles_bound,       \* show_company_details: 'articles' in locals()
    articles,             \* show_company_details: the local variable
    log                   \* external requests issued by the current run

vars == <<session_state, api_key, page, confirm_shown, clicked, pc,
          company_input, idx, confirmed_companies, items, options, choice,
          articles_bound, articles, log>>

loopLocals == <<confirmed_companies, items, options, choice,
                articles_bound, articles>>

Call(op, name, status, data) ==
    [op |-> op, name |-> name, status |-> status, data |-> data]

\* a click reaches the run only from a button the previous run rendered
ClickAvailable(click) ==
    \/ click = "none"
    \/ click = "search" /\ page = "welcome"
    \/ click = "confirm" /\ page = "select" /\ confirm_shown

\* mutant of Screen: the selection screen is run again after Confirm
ScreenSelectAgain(step) ==
    CASE step = "welcome" -> "welcome_screen"
      [] OTHER -> "select_companies"

\* main: the screen function run for a step
Screen(step) ==
    CASE step = "welcome" -> "welcome_screen"
      [] step = "select_companies" -> "select_companies"
      [] step = "show_company_details" -> "show_company_details"
      [] OTHER -> "none"

\* the state after the first run of the script in a session
Init ==
    /\ session_state = [step |-> "welcome"]
    /\ api_key \in BOOLEAN
    /\ page = "welcome"
    /\ confirm_shown = FALSE
    /\ clicked = "none"
    /\ pc = "idle"
    /\ company_input = <<>>
    /\ idx = 0
    /\ confirmed_companies = <<>>
    /\ items = <<>>
    /\ options = <<>>
    /\ choice = 0
    /\ articles_bound = FALSE
    /\ articles = <<>>
    /\ log = <<>>

\* ------------------------------------------------------------------ Intake
\* mutant of WelcomeStore: the emptiness check is dropped
WelcomeStoreAlways(ss, company_names) ==
    ("company_names" :> company_names)
        @@ [ss EXCEPT !.step = "select_companies"]

\* welcome_screen: the session state after the button's branch
WelcomeStore(ss, company_names) ==
    IF company_names # <<>>
    THEN ("company_names" :> company_names)
             @@ [ss EXCEPT !.step = "select_companies"]
    ELSE ss

WelcomeScreen(text, click, key) ==
    /\ pc = "idle"
    /\ Screen(session_state.step) = "welcome_screen"
    /\ ClickAvailable(click)
    /\ api_key' = key
    /\ clicked' = click
    /\ company_input' = text
    /\ session_state' =
           IF click = "search"
           THEN WelcomeStore(session_state, ParseNames(text))
           ELSE session_state
    /\ page' = "welcome"
    /\ confirm_shown' = FALSE
    /\ log' = <<>>
    /\ UNCHANGED <<pc, idx, loopLocals>>

\* ---------------------------------------------------------- Disambiguation
SearchInputs ==
    {r \in [ok : BOOLEAN, items : SearchResponses] : ~r.ok => r.items = <<>>}

\* mutant of KeyMissing: the credential check is dropped
KeyMissingNever(key) == FALSE

\* the missing-credential check at the head of each loop body
KeyMissing(key) == ~key

\* mutant of Label: the option shows the title alone
LabelTitleOnly(item) == item.title

\* f"{item.get('title')} (Company Number: {item.get('company_number')})"
Label(item) ==
    item.title \o <<" (Company Number: ">> \o item.company_number \o <<")">>

\* the labels of items[:5]
Options(its) == [k \in 1..Min(TopResults, Len(its)) |-> Label(its[k])]

\* items[options.index(selected)].get('company_number')
SelectedNumber(its, opts, selected) ==
    its[ListIndex(opts, selected)].company_number

\* how the loop body classifies a response
SearchStatus(resp) ==
    IF ~resp.ok THEN "error"
    ELSE IF resp.items = <<>> THEN "empty"
    ELSE "items"

\* mutant of SearchRequests: a failed search is issued a second time
SearchRequestsRetry(name, status) ==
    IF status = "error"
    THEN <<Call("search", name, status, <<>>), Call("search", name, status, <<>>)>>
    ELSE <<Call("search", name, status, <<>>)>>

\* the search requests one loop body issues for a name
SearchRequests(name, status) == <<Call("search", name, status, <<>>)>>

\* mutant of ConfirmedAfter: a name without results is recorded with None
ConfirmedAfterNone(confirmed, name, resp, pick) ==
    IF ~resp.ok THEN confirmed
    ELSE IF resp.items = <<>> THEN DictSet(confirmed, name, <<"None">>)
    ELSE DictSet(confirmed, name, resp.items[pick].company_number)

\* the local dict after the loop body for name, the user picking option pick
ConfirmedAfter(confirmed, name, resp, pick) ==
    IF SearchStatus(resp) = "items"
    THEN DictSet(confirmed, name,
                 SelectedNumber(resp.items, Options(resp.items),
                                Options(resp.items)[pick]))
    ELSE confirmed

SelectBegin(click, key) ==
    /\ pc = "idle"
    /\ Screen(session_state.step) = "select_companies"
    /\ ClickAvailable(click)
    /\ api_key' = key
    /\ clicked' = click
    /\ page' = "select"
    /\ confirm_shown' = FALSE
    /\ company_input' = <<>>
    /\ log' = <<>>
    /\ confirmed_companies' = <<>>
    /\ items' = <<>>
    /\ options' = <<>>
    /\ choice' = 0
    /\ articles_bound' = FALSE
    /\ articles' = <<>>
    /\ IF "company_names" \notin DOMAIN session_state
       THEN pc' = "idle" /\ idx' = 0
       ELSE pc' = "select" /\ idx' = 1
    /\ UNCHANGED session_state

\* one pass of the for loop over st.session_state['company_names']
SelectIter(resp, pick) ==
    /\ pc = "select"
    /\ idx <= Len(session_state.company_names)
    /\ LET name == session_state.company_names[idx]
           status == SearchStatus(resp)
       IN  IF KeyMissing(api_key)
           THEN \* st.error; return
                /\ resp = [ok |-> FALSE, items |-> <<>>] /\ pick = 1
                /\ pc' = "idle"
                /\ UNCHANGED <<idx, log, confirmed_companies, items,
                               options, choice>>
           ELSE /\ log' = log \o SearchRequests(name, status)
                /\ items' = resp.items
                /\ IF status # "items"
                   THEN \* st.error / "No results found"; continue
                        /\ pick = 1
                        /\ options' = <<>>
                        /\ choice' = 0
                        /\ idx' = idx + 1
                        /\ confirmed_companies' =
                               ConfirmedAfter(confirmed_companies,
                                              name, resp, pick)
                        /\ UNCHANGED pc
                   ELSE /\ pick <= Len(Options(resp.items))
                        /\ options' = Options(resp.items)
                        /\ IF DictHas(confirmed_companies, name)
                           THEN \* st.selectbox(key=company_name) with a key
                                \* already used in this run raises and
                                \* ends the run
                                /\ pick = 1
                                /\ choice' = 0
                                /\ pc' = "idle"
                                /\ UNCHANGED <<idx, confirmed_companies>>
                           ELSE /\ choice' = pick
                                /\ confirmed_companies' =
                                       ConfirmedAfter(confirmed_companies,
                                                      name, resp, pick)
                                /\ idx' = idx + 1
                                /\ UNCHANGED pc
    /\ UNCHANGED <<session_state, api_key, page, confirm_shown, clicked,
                   company_input, articles_bound, articles>>

\* st.button("Confirm") after the loop
ConfirmStore(ss, confirmed) ==
    ("confirmed_companies" :> confirmed)
        @@ [ss EXCEPT !.step = "show_company_details"]

SelectEnd ==
    /\ pc = "select"
    /\ idx > Len(session_state.company_names)
    /\ pc' = "idle"
    /\ confirm_shown' = TRUE
    /\ session_state' =
           IF clicked = "confirm"
           THEN ConfirmStore(session_state, confirmed_companies)
           ELSE session_state
    /\ UNCHANGED <<api_key, page, clicked, company_input, idx, loopLocals,
                   log>>

\* ------------------------------------------------------------ Presentation
NewsInputs ==
    {r \in [kind : {"raise", "non200", "ok"}, articles : NewsResponses] :
        r.kind # "ok" => r.articles = <<>>}

\* f"- {article.get('title')}: {article.get('description')}\n"
RECURSIVE ArticleLines(_)
ArticleLines(arts) ==
    IF arts = <<>> THEN <<>>
    ELSE <<"- ", Head(arts).title, ": ", Head(arts).description, "\n">>
             \o ArticleLines(Tail(arts))

NoNewsLine == <<"No recent news articles available.\n">>

\* the news part of summary_prompt
PromptNews(bound, arts) ==
    IF bound /\ arts # <<>> THEN ArticleLines(arts) ELSE NoNewsLine

\* the requests of the loop body from the officers step on, detail fetched;
\* each is issued once and a failed officers request ends the body
BodyRequests(name, selected_info, officers_ok, news, summary_ok, bound, arts) ==
    LET officers ==
            IF "Officers" \in selected_info
            THEN <<Call("officers", name,
                        IF officers_ok THEN "ok" ELSE "error", <<>>)>>
            ELSE <<>>
        newsCall == <<Call("news", name, news.kind, news.articles)>>
        bound2 == bound \/ news.kind = "ok"
        arts2 == IF news.kind = "ok" THEN news.articles ELSE arts
        summary == <<Call("summary", name,
                          IF summary_ok THEN "ok" ELSE "error",
                          PromptNews(bound2, arts2))>>
    IN  IF "Officers" \in selected_info /\ ~officers_ok
        THEN officers
        ELSE IF news.kind = "raise"
        THEN officers \o newsCall
        ELSE officers \o newsCall \o summary

ShowBegin(click, key) ==
    /\ pc = "idle"
    /\ Screen(session_state.step) = "show_company_details"
    /\ ClickAvailable(click)
    /\ api_key' = key
    /\ clicked' = click
    /\ page' = "details"
    /\ confirm_shown' = FALSE
    /\ company_input' = <<>>
    /\ log' = <<>>
    /\ confirmed_companies' = <<>>
    /\ items' = <<>>
    /\ options' = <<>>
    /\ choice' = 0
    /\ articles_bound' = FALSE
    /\ articles' = <<>>
    /\ IF "confirmed_companies" \notin DOMAIN session_state
       THEN pc' = "idle" /\ idx' = 0
       ELSE pc' = "show" /\ idx' = 1
    /\ UNCHANGED session_state

\* one pass of the for loop over companies.keys()
ShowIter(detail_ok, selected_info, officers_ok, news, summary_ok) ==
    /\ pc = "show"
    /\ idx <= Len(session_state.confirmed_companies)
    /\ LET company_name == DictKeys(session_state.confirmed_companies)[idx]
           reached_news == ~("Officers" \in selected_info /\ ~officers_ok)
       IN  IF KeyMissing(api_key)
           THEN \* st.error; return
                /\ pc' = "idle"
                /\ UNCHANGED <<idx, log, articles_bound, articles>>
           ELSE IF ~detail_ok
           THEN \* st.error; continue
                /\ log' = Append(log, Call("detail", company_name, "error", <<>>))
                /\ idx' = idx + 1
                /\ UNCHANGED <<pc, articles_bound, articles>>
           ELSE /\ log' = Append(log, Call("detail", company_name, "ok", <<>>))
                          \o BodyRequests(company_name, selected_info,
                                          officers_ok, news, summary_ok,
                                          articles_bound, articles)
                /\ IF reached_news /\ news.kind = "ok"
                   THEN articles_bound' = TRUE /\ articles' = news.articles
                   ELSE UNCHANGED <<articles_bound, articles>>
                /\ IF reached_news /\ news.kind = "raise"
                   THEN \* requests.get outside any try: the run ends
                        pc' = "idle" /\ UNCHANGED idx
                   ELSE idx' = idx + 1 /\ UNCHANGED pc
    /\ UNCHANGED <<session_state, api_key, page, confirm_shown, clicked,
                   company_input, confirmed_companies, items, options,
                   choice>>

ShowEnd ==
    /\ pc = "show"
    /\ idx > Len(session_state.confirmed_companies)
    /\ pc' = "idle"
    /\ UNCHANGED <<session_state, api_key, page, confirm_shown, clicked,
                   company_input, idx, loopLocals, log>>

\* ----------------------------------------------------------- specification
Next ==
    \/ \E text \in Texts, click \in {"none", "search"}, key \in BOOLEAN :
           WelcomeScreen(text, click, key)
    \/ \E click \in {"none", "search", "confirm"}, key \in BOOLEAN :
           SelectBegin(click, key)
    \/ \E resp \in SearchInputs, pick \in 1..TopResults :
           SelectIter(resp, pick)
    \/ SelectEnd
    \/ \E click \in {"none", "confirm"}, key \in BOOLEAN :
           ShowBegin(click, key)
    \/ \E detail_ok \in BOOLEAN, selected_info \in SUBSET AdditionalInfoOptions,
          officers_ok \in BOOLEAN, news \in NewsInputs, summary_ok \in BOOLEAN :
           ShowIter(detail_ok, selected_info, officers_ok, news, summary_ok)
    \/ ShowEnd

Spec == Init /\ [][Next]_vars

\* ------------------------------------------------------------ observations
Step == session_state.step
Blank(text) == \A k \in 1..Len(text) : text[k] \in Whitespace
Count(op, name) ==
    Cardinality({k \in 1..Len(log) : log[k].op = op /\ log[k].name = name})
Issued(op, name) == Count(op, name) > 0
EventNames(events) == [k \in 1..Len(events) |-> events[k].name]
Companies ==
    IF "confirmed_companies" \in DOMAIN session_state
    THEN DictKeys(session_state.confirmed_companies)
    ELSE <<>>
IsPrefix(s, t) == Len(s) <= Len(t) /\ s = SubSeq(t, 1, Len(s))
\* the run that rendered the Confirm button was triggered by a Confirm click
JustConfirmed ==
    pc = "idle" /\ page = "select" /\ confirm_shown /\ clicked = "confirm"

\* ------------------------------------------------------------------ claims
\* C1: a submitted text with a non-blank line stores its trimmed non-empty
\* lines, deduplicated, in first-occurrence order.
C1_StoresDedupedNames ==
    (page = "welcome" /\ clicked = "search" /\ ~Blank(company_input)) =>
        /\ "company_names" \in DOMAIN session_state
        /\ session_state.company_names = Dedup(ParseNames(company_input))

\* C2: the stage only moves welcome -> select_companies (on a submit of a
\* text that is not blank, which stores the names) and select_companies ->
\* show_company_details (on Confirm); a blank submit changes nothing of the
\* session.
C2_StageForwardOnly ==
    [][/\ Step' # Step =>
              \/ /\ Step = "welcome" /\ Step' = "select_companies"
                 /\ clicked' = "search" /\ ~Blank(company_input')
                 /\ "company_names" \in DOMAIN session_state'
              \/ /\ Step = "select_companies"
                 /\ Step' = "show_company_details"
                 /\ clicked = "confirm"
       /\ (Step = "welcome" /\ clicked' = "search" /\ Blank(company_input')) =>
              session_state' = session_state]_vars

C2_Witness == Step = "show_company_details" /\ page = "details"

\* C3: after Confirm the keys of the stored map are the names whose search
\* returned at least one item, deduplicated, in requested order; a name whose
\* search returned zero results (and, entered twice, no result the other
\* time either) is absent; with results for every name the keys are the
\* requested names.
C3_ConfirmedKeys ==
    JustConfirmed =>
        LET withItems == SelectSeq(log, LAMBDA e : e.status = "items")
        IN  /\ Companies = Dedup(EventNames(withItems))
            /\ \A k \in 1..Len(log) :
                   (/\ log[k].status = "empty"
                    /\ \A m \in 1..Len(log) :
                           log[m].name = log[k].name =>
                               log[m].status # "items") =>
                       \A j \in 1..Len(Companies) : Companies[j] # log[k].name
            /\ (\A k \in 1..Len(log) : log[k].status = "items") =>
                   Companies = Dedup(session_state.company_names)

C3_Witness ==
    /\ JustConfirmed
    /\ \E k \in 1..Len(log) : log[k].status = "empty"
    /\ \E k \in 1..Len(log) : log[k].status = "items"

\* C4: a search with n >= 1 results yields min(5, n) options in registry
\* order, equal options standing for one identifier, and the identifier
\* recorded for the name is that of the candidate the user picked.
C4_OptionsAndSelection ==
    (page = "select" /\ items # <<>>) =>
        /\ Len(options) = Min(5, Len(items))
        /\ \A k \in 1..Len(options) :
               /\ SubSeq(options[k], 1, Len(items[k].title)) = items[k].title
               /\ \E m \in 1..Len(options[k]) :
                      <<options[k][m]>> = items[k].company_number
        /\ \A j, k \in 1..Len(options) :
               options[j] = options[k] =>
                   items[j].company_number = items[k].company_number
        /\ choice > 0 =>
               DictGet(confirmed_companies,
                       session_state.company_names[idx - 1])
                   = items[choice].company_number

C4_Witness ==
    /\ page = "select" /\ Len(items) > 5 /\ choice = 2
    /\ items[1] # items[2]

\* C5: a failed officers, news or summary step never ends the company's tab:
\* after a failed officers request the news and summary requests of the same
\* company are issued, after a failed news request the summary is requested.
C5_DownstreamFailureKeepsTab ==
    \A k \in 1..Len(log) :
        /\ (log[k].op = "officers" /\ log[k].status = "error") =>
               Issued("news", log[k].name) /\ Issued("summary", log[k].name)
        /\ (log[k].op = "news" /\ log[k].status # "ok") =>
               Issued("summary", log[k].name)

\* C6: when a run over the confirmed companies ends, a company whose detail
\* request failed has no further request, and every other company has its
\* detail request issued and, that one succeeding, its news and summary
\* requests issued.
C6_DetailFailureIsolated ==
    (pc = "idle" /\ page = "details" /\ api_key) =>
        \A k \in 1..Len(log) :
            (log[k].op = "detail" /\ log[k].status = "error") =>
                /\ ~Issued("news", log[k].name)
                /\ ~Issued("summary", log[k].name)
                /\ \A j \in 1..Len(Companies) :
                       Companies[j] # log[k].name =>
                           /\ Issued("detail", Companies[j])
                           /\ (\E m \in 1..Len(log) :
                                   /\ log[m].op = "detail"
                                   /\ log[m].name = Companies[j]
                                   /\ log[m].status = "ok") =>
                                  /\ Issued("news", Companies[j])
                                  /\ Issued("summary", Companies[j])

\* C7: with the registry credential missing, a run of select_companies
\* issues no search, records no selection, does not reach Confirm and leaves
\* the stage, and a run of show_company_details issues no request.
C7_MissingKeyBlocks ==
    /\ (~api_key /\ page = "select") =>
           /\ log = <<>>
           /\ confirmed_companies = <<>>
           /\ ~confirm_shown
           /\ Step = "select_companies"
    /\ (~api_key /\ page = "details") => log = <<>>

C7_Witness ==
    ~api_key /\ page = "select" /\ pc = "idle" /\ clicked = "confirm"

\* C8: a Confirm click with a map already confirmed leaves the map and the
\* stage as the first confirmation set them.
C8_ConfirmIdempotent ==
    [][(clicked' = "confirm" /\ "confirmed_companies" \in DOMAIN session_state)
           => session_state' = session_state]_vars

C8_Witness ==
    /\ clicked = "confirm" /\ page = "details" /\ pc = "idle"
    /\ Issued("summary", Companies[1])

\* C9: the summary prompt of a company embeds the articles of that
\* company's own news request, or the placeholder when that request failed
\* or returned none.
C9_PromptUsesOwnNews ==
    \A k \in 1..Len(log) :
        log[k].op = "summary" =>
            \E j \in 1..(k - 1) :
                /\ log[j].op = "news" /\ log[j].name = log[k].name
                /\ log[k].data =
                       IF log[j].status = "ok" /\ log[j].data # <<>>
                       THEN ArticleLines(log[j].data)
                       ELSE NoNewsLine

\* C10 (as stated): a run of select_companies issues exactly one search
\* request per requested name.
C10_ExactlyOneSearchPerName ==
    (pc = "idle" /\ page = "select") =>
        EventNames(log) = session_state.company_names

\* C10 (amended): no request is repeated within a run: the names searched
\* are a prefix of the requested names, all of them when the run reaches
\* Confirm, and each confirmed company has at most one detail, officers,
\* news and summary request.
C10_AtMostOnceNoRetry ==
    /\ page = "select" =>
           /\ IsPrefix(EventNames(log), session_state.company_names)
           /\ confirm_shown => EventNames(log) = session_state.company_names
    /\ page = "details" =>
           /\ \A k \in 1..Len(log) :
                  \E j \in 1..Len(Companies) : Companies[j] = log[k].name
           /\ \A j \in 1..Len(Companies) :
                  \A op \in {"detail", "officers", "news", "summary"} :
                      Count(op, Companies[j]) <= 1

C10_Witness ==
    /\ page = "details" /\ pc = "idle"
    /\ \E k \in 1..Len(log) : log[k].op = "officers" /\ log[k].status = "error"
    /\ \E k \in 1..Len(log) : log[k].op = "summary" /\ log[k].status = "error"

====
